---- MODULE Spec2Model ----
(***************************************************************************)
(* Model of src/src/index.ts: the alt-text auto-labeler.                   *)
(*                                                                         *)
(* The process reads a cursor file, connects to the Jetstream event        *)
(* source with that cursor, labels qualifying posts through the labeler    *)
(* server, checkpoints the cursor on an interval and on SIGINT.            *)
(*                                                                         *)
(* The file system is modelled at the granularity node:fs gives it:        *)
(* writeFile / writeFileSync open the file with flag 'w' (create or        *)
(* truncate) and then write the data at offset 0; the two steps are        *)
(* separate system calls, the asynchronous ones run on the thread pool and *)
(* may interleave with each other and with the main thread.                *)
(***************************************************************************)
EXTENDS Integers, Sequences, FiniteSets

\* ------------------------------------------------------------------ bounds
MaxNow == 2          \* wall clock values are 1..MaxNow (milliseconds)
MaxPending == 2      \* asynchronous writeFile calls in flight at once
MaxTimers == 2       \* live interval timers at once
MaxImages == 2       \* images in one embed
MaxCursor == 120     \* cursor values of the round-trip runs are 0..MaxCursor

\* ------------------------------------------------------- program constants
UsPerMs == 1000      \* Date.now() * 1000

\* ------------------------------------------------------------ value domain
Unset == -1                  \* jetstream.cursor === undefined
NaN == -2                    \* the number NaN
DID == "did:target"          \* process.env.DID
OtherDid == "did:other"
NoAlt == "noalt"             \* an image whose alt field is absent
NoEvent == [did |-> "none", embed |-> "none", images |-> <<>>, rkey |-> "none"]

Digits == <<"0", "1", "2", "3", "4", "5", "6", "7", "8", "9">>

DigitChar(d) == Digits[d + 1]

IsDigit(c) == \E d \in 0..9 : Digits[d + 1] = c

DigitVal(c) == CHOOSE d \in 0..9 : Digits[d + 1] = c

\* Number.prototype.toString for a non-negative integer: decimal digits.
RECURSIVE NatToString(_)
NatToString(n) ==
  IF n < 10 THEN <<DigitChar(n)>>
  ELSE Append(NatToString(n \div 10), DigitChar(n % 10))

\* A save that writes the cursor in milliseconds.
CursorToStringMs(v) ==
  IF v = NaN THEN <<"N", "a", "N">> ELSE NatToString(v \div UsPerMs)

\* jetstream.cursor.toString() / cursor.toString()
CursorToString(v) ==
  IF v = NaN THEN <<"N", "a", "N">> ELSE NatToString(v)

RECURSIVE DigitsToNat(_)
DigitsToNat(s) ==
  IF s = <<>> THEN 0
  ELSE 10 * DigitsToNat(SubSeq(s, 1, Len(s) - 1)) + DigitVal(s[Len(s)])

\* Number(text): the empty string is 0, a digit string is its value,
\* anything else is NaN.
Number(s) ==
  IF s = <<>> THEN 0
  ELSE IF \A i \in 1..Len(s) : IsDigit(s[i]) THEN DigitsToNat(s)
  ELSE NaN

\* A test for undefined only: zero passes it.
Defined(v) == v # Unset

\* JavaScript truthiness of a cursor value.
Truthy(v) == v \notin {Unset, NaN, 0}

\* epochUsToDateTime: new Date(NaN).toISOString() throws RangeError.
EpochUsToDateTimeThrows(v) == v \in {Unset, NaN}

\* Writing data at offset 0 of an open file: the bytes beyond the data stay.
WriteAt0(content, data) ==
  IF Len(data) >= Len(content) THEN data
  ELSE data \o SubSeq(content, Len(data) + 1, Len(content))

IsIntegerText(s) == s # <<>> /\ \A i \in 1..Len(s) : IsDigit(s[i])

\* The cursor file: absent (readFileSync throws ENOENT), or its text.
NoFile == [exists |-> FALSE, text |-> <<>>]

FileOf(text) == [exists |-> TRUE, text |-> text]

VARIABLES
  now,                  \* wall clock, milliseconds
  file,                 \* CURSOR_FILE: NoFile or FileOf(text)
  stored,               \* value left in the file by the last completed write
  pc,                   \* position of the main thread
  exited,               \* how the process ended ("no" while it runs)
  cursor,               \* let cursor
  jsCursor,             \* jetstream.cursor
  conn,                 \* state of the Jetstream connection
  consumed,             \* events received by this process run
  timers,               \* live setInterval timers
  cursorUpdateInterval, \* let cursorUpdateInterval (0: never assigned)
  pending,              \* fs.writeFile calls in flight
  lastTick,             \* what the last interval callback did
  listenState,          \* labelerServer.app.listen
  handled,              \* the last handler run; again: it was a replay
  fresh,                \* this run synthesized its cursor and persisted it
  checkpointStarted     \* this run began a periodic or shutdown write

vars == <<now, file, stored, pc, exited, cursor, jsCursor, conn, consumed, timers,
          cursorUpdateInterval, pending, lastTick, listenState, handled, fresh,
          checkpointStarted>>

fsVars == <<file, stored>>
jsVars == <<jsCursor, conn, consumed>>
timerVars == <<timers, cursorUpdateInterval, lastTick>>
runVars == <<fresh, checkpointStarted>>

Init ==
  /\ now = 1
  /\ file = NoFile
  /\ stored = 0
  /\ pc = "load"
  /\ exited = "no"
  /\ cursor = 0
  /\ jsCursor = Unset
  /\ conn = "none"
  /\ consumed = FALSE
  /\ timers = {}
  /\ cursorUpdateInterval = 0
  /\ pending = <<>>
  /\ lastTick = "none"
  /\ listenState = "none"
  /\ handled = [src |-> "none", event |-> NoEvent, calls |-> <<>>, threw |-> FALSE,
                again |-> FALSE]
  /\ fresh = FALSE
  /\ checkpointStarted = FALSE

\* ------------------------------------------------------------ process end
ExitCode(kind) ==
  CASE kind = "exit0" -> 0
    [] kind \in {"exit1", "uncaught_startup", "uncaught_sigint",
                 "uncaught_listen", "uncaught_open"} -> 1
    [] OTHER -> -1

\* The process ends: its timers, its connection and the writes it had in
\* flight on the thread pool go with it; the file stays as it is.
Terminate(kind) ==
  /\ pc' = "off"
  /\ exited' = kind
  /\ pending' = <<>>
  /\ timers' = {}
  /\ cursorUpdateInterval' = 0
  /\ lastTick' = "none"
  /\ conn' = "none"

\* ---------------------------------------------------------------- startup
\* Lines 42-55 up to the write: read and parse the cursor file.
LoadCursor ==
  /\ pc = "load"
  /\ IF ~file.exists
     THEN \* ENOENT: cursor = Math.floor(Date.now() * 1000)
          /\ cursor' = now * UsPerMs
          /\ pc' = "fresh_open"
          /\ UNCHANGED <<exited, pending, timers, cursorUpdateInterval, lastTick,
                         conn>>
     ELSE \/ \* the read succeeds
             /\ cursor' = Number(file.text)
             /\ IF EpochUsToDateTimeThrows(Number(file.text))
                THEN Terminate("exit1")
                ELSE /\ pc' = "new"
                     /\ UNCHANGED <<exited, pending, timers, cursorUpdateInterval,
                                    lastTick, conn>>
          \/ \* readFileSync throws something other than ENOENT
             /\ Terminate("exit1")
             /\ UNCHANGED cursor
  /\ UNCHANGED <<now, fsVars, jsCursor, consumed, handled, listenState, runVars>>

\* Line 50, first half: writeFileSync opens the file with flag 'w'.
FreshOpen ==
  /\ pc = "fresh_open"
  /\ file' = FileOf(<<>>)
  /\ pc' = "fresh_write"
  /\ UNCHANGED <<now, stored, exited, cursor, jsVars, timerVars, pending,
                 listenState, handled, runVars>>

\* A startup that leaves the synthesized cursor unwritten.
FreshWriteDropped ==
  /\ pc = "fresh_write"
  /\ pc' = "new"
  /\ fresh' = TRUE
  /\ UNCHANGED <<now, fsVars, exited, cursor, jsVars, timerVars, pending,
                 listenState, handled, checkpointStarted>>

\* Line 50, second half: writeFileSync writes cursor.toString().
FreshWrite ==
  /\ pc = "fresh_write"
  /\ file' = FileOf(WriteAt0(file.text, CursorToString(cursor)))
  /\ stored' = IF IsIntegerText(file'.text) THEN Number(file'.text) ELSE stored
  /\ pc' = "new"
  /\ fresh' = TRUE
  /\ UNCHANGED <<now, exited, cursor, jsVars, timerVars, pending, listenState,
                 handled, checkpointStarted>>

\* Lines 57-61: new Jetstream({cursor}).  The library keeps a truthy cursor;
\* whether it keeps a falsy one (0) or leaves jetstream.cursor undefined
\* depends on the installed library, so both outcomes are allowed.
NewJetstream ==
  /\ pc = "new"
  /\ jsCursor' \in (IF Truthy(cursor) THEN {cursor} ELSE {cursor, Unset})
  /\ pc' = "listen"
  /\ UNCHANGED <<now, fsVars, exited, cursor, conn, consumed, timerVars, pending,
                 listenState, handled, runVars>>

\* Line 116: labelerServer.app.listen(...) is asked to start.
Listen ==
  /\ pc = "listen"
  /\ listenState' = "starting"
  /\ pc' = "start"
  /\ UNCHANGED <<now, fsVars, exited, cursor, jsVars, timerVars, pending, handled,
                 runVars>>

\* Line 139: jetstream.start().
JetstreamStart ==
  /\ pc = "start"
  /\ conn' = "connecting"
  /\ pc' = "run"
  /\ UNCHANGED <<now, fsVars, exited, cursor, jsCursor, consumed, timerVars,
                 pending, listenState, handled, runVars>>

\* ----------------------------------------------------------- post events
Alts == {"", "a", NoAlt}     \* alt: "", "a", absent

ImageLists == UNION {[1..n -> Alts] : n \in 0..MaxImages}

\* Every post-creation event (time_us is drawn separately).
AllEvents ==
  [did : {DID, OtherDid}, embed : {"none", "external"}, images : {<<>>}, rkey : {"r1", "r2"}]
  \cup [did : {DID, OtherDid}, embed : {"images"}, images : ImageLists, rkey : {"r1", "r2"}]

\* The event of the runs that are about the process: a qualifying post,
\* which the event source may deliver more than once.
MainEvents ==
  { [did |-> DID, embed |-> "images", images |-> <<"a", "">>, rkey |-> "r2"] }

\* A check that tests alt === undefined only.
AltMissingAbsentOnly(alt) == alt = NoAlt

\* !img.alt: an absent alt and the empty string are falsy.
AltMissing(alt) == alt = NoAlt \/ alt = ""

\* images.some((img) => !img.alt)
HasImagesWithoutAlt(images) == \E i \in 1..Len(images) : AltMissing(images[i])

\* `at://${event.did}/app.bsky.feed.post/${event.commit.rkey}`
PostUri(e) == <<"at://", e.did, "/", "app.bsky.feed.post", "/", e.rkey>>

\* The createLabel calls the onCreate handler issues for event e.
CreateHandlerCalls(e) ==
  IF e.did # DID THEN <<>>
  ELSE IF e.embed # "images" THEN <<>>
  ELSE IF ~HasImagesWithoutAlt(e.images) THEN <<>>
  ELSE << [uri |-> PostUri(e), neg |-> FALSE, val |-> "no-alt-text"] >>

\* The label created in the listen callback.
StartupLabel ==
  [uri |-> <<"at://", "imlunahey.com", "/", "app.bsky.feed.post", "/", "3lgyti2673c2u">>,
   neg |-> FALSE, val |-> "no-alt-text"]

\* time_us of the events the source may deliver now: a replay from the
\* resume cursor when one was given, live events otherwise.
EventTimes ==
  {m * UsPerMs + 500 : m \in (IF Truthy(jsCursor) THEN 1 ELSE now)..now}

\* The library's cursor update: if (event.time_us > (this.cursor ?? 0)).
AdvanceCursor(cur, t) ==
  IF cur = NaN THEN NaN
  ELSE IF t > (IF cur = Unset THEN 0 ELSE cur) THEN t
  ELSE cur

\* The writes in flight are a multiset: the thread pool serves them in any
\* order.  The sequence that holds them is kept sorted.
RemoveAt(q, i) == SubSeq(q, 1, i - 1) \o SubSeq(q, i + 1, Len(q))

WriteKey(w) == 2 * w.val + (IF w.stage = "opened" THEN 1 ELSE 0)

AddWrite(q, w) ==
  LET k == Cardinality({i \in 1..Len(q) : WriteKey(q[i]) <= WriteKey(w)})
  IN SubSeq(q, 1, k) \o <<w>> \o SubSeq(q, k + 1, Len(q))

\* --------------------------------------------------------------- handlers
\* Lines 116-130, error branch: log and return.
ListenFailed ==
  /\ pc = "run"
  /\ listenState = "starting"
  /\ listenState' = "failed"
  /\ UNCHANGED <<now, fsVars, pc, exited, cursor, jsVars, timerVars, pending, handled,
                 runVars>>

\* Lines 116-130, success branch: createLabel outside any try block.
ListenOk ==
  /\ pc = "run"
  /\ listenState = "starting"
  /\ \E throws \in BOOLEAN :
       /\ handled' = [src |-> "listen", event |-> NoEvent,
                      calls |-> <<StartupLabel>>, threw |-> throws,
                      again |-> FALSE]
       /\ IF throws
          THEN Terminate("uncaught_listen")
          ELSE UNCHANGED <<pc, exited, conn, timerVars, pending>>
  /\ listenState' = "listening"
  /\ UNCHANGED <<now, fsVars, cursor, jsCursor, consumed, runVars>>

\* Lines 63-75: the open handler logs the cursor and starts an interval.
JsOpen ==
  /\ pc = "run"
  /\ conn = "connecting"
  /\ IF EpochUsToDateTimeThrows(jsCursor)
     THEN /\ Terminate("uncaught_open")
     ELSE /\ Cardinality(timers) < MaxTimers
          /\ LET id == CHOOSE i \in 1..MaxTimers : i \notin timers
             IN /\ timers' = timers \cup {id}
                /\ cursorUpdateInterval' = id
          /\ conn' = "open"
          /\ UNCHANGED <<pc, exited, pending, lastTick>>
  /\ UNCHANGED <<now, fsVars, cursor, jsCursor, consumed, handled, listenState,
                 runVars>>

\* Lines 77-80: the close handler clears the interval the variable names;
\* the library then reconnects.
JsClose ==
  /\ pc = "run"
  /\ conn = "open"
  /\ timers' = timers \ {cursorUpdateInterval}
  /\ conn' = "connecting"
  /\ UNCHANGED <<now, fsVars, pc, exited, cursor, jsCursor, consumed,
                 cursorUpdateInterval, lastTick, pending, listenState, handled,
                 runVars>>

\* Lines 82-84: the error handler only logs; the connection the error was
\* reported on may have been lost.
JsError ==
  /\ pc = "run"
  /\ conn = "open"
  /\ conn' = "connecting"
  /\ UNCHANGED <<now, fsVars, pc, exited, cursor, jsCursor, consumed, timerVars,
                 pending, listenState, handled, runVars>>

\* The event is the one the preceding handler run handled (a replay).
Redelivered(e) == handled.src = "onCreate" /\ handled.event = e

\* A handler that remembers the event it handled last and does not label
\* it again.
OnCreateDedup(e) ==
  /\ pc = "run"
  /\ conn = "open"
  /\ \E t \in EventTimes : jsCursor' = AdvanceCursor(jsCursor, t)
  /\ consumed' = TRUE
  /\ LET calls == IF Redelivered(e) THEN <<>> ELSE CreateHandlerCalls(e)
     IN \E throws \in BOOLEAN :
          /\ throws => calls # <<>>
          /\ handled' = [src |-> "onCreate", event |-> e, calls |-> calls,
                         threw |-> throws, again |-> Redelivered(e)]
  /\ UNCHANGED <<now, fsVars, pc, exited, cursor, conn, timerVars, pending,
                 listenState, runVars>>

\* Lines 86-114: an event arrives; the library advances jetstream.cursor and
\* calls the handler; createLabel may throw inside the try block.
OnCreate(e) ==
  /\ pc = "run"
  /\ conn = "open"
  /\ \E t \in EventTimes : jsCursor' = AdvanceCursor(jsCursor, t)
  /\ consumed' = TRUE
  /\ \E throws \in BOOLEAN :
       /\ throws => CreateHandlerCalls(e) # <<>>
       /\ handled' = [src |-> "onCreate", event |-> e,
                      calls |-> CreateHandlerCalls(e), threw |-> throws,
                      again |-> Redelivered(e)]
  /\ UNCHANGED <<now, fsVars, pc, exited, cursor, conn, timerVars, pending,
                 listenState, runVars>>

\* An interval callback that never writes.
TickNeverWrites ==
  /\ pc = "run"
  /\ timers # {}
  /\ lastTick' = "skip"
  /\ UNCHANGED <<now, fsVars, pc, exited, cursor, jsVars, timers,
                 cursorUpdateInterval, pending, listenState, handled, runVars>>

\* Lines 67-74: the interval callback.
Tick ==
  /\ pc = "run"
  /\ timers # {}
  /\ IF Truthy(jsCursor)
     THEN /\ Len(pending) < MaxPending
          /\ pending' = AddWrite(pending, [val |-> jsCursor, stage |-> "queued"])
          /\ lastTick' = "write"
          /\ checkpointStarted' = TRUE
     ELSE /\ lastTick' = "skip"
          /\ UNCHANGED <<pending, checkpointStarted>>
  /\ UNCHANGED <<now, fsVars, pc, exited, cursor, jsVars, timers,
                 cursorUpdateInterval, listenState, handled, fresh>>

\* ------------------------------------------------ fs.writeFile in flight
\* Line 70, on the thread pool: open(CURSOR_FILE, 'w') creates or truncates.
AsyncOpen(i) ==
  /\ pc # "off"
  /\ pending[i].stage = "queued"
  /\ file' = FileOf(<<>>)
  /\ pending' = AddWrite(RemoveAt(pending, i), [pending[i] EXCEPT !.stage = "opened"])
  /\ UNCHANGED <<now, stored, pc, exited, cursor, jsVars, timerVars, listenState,
                 handled, runVars>>

\* Line 70, on the thread pool: the data is written at offset 0; the
\* callback of line 71 has no error to log.
AsyncWrite(i) ==
  /\ pc # "off"
  /\ pending[i].stage = "opened"
  /\ file' = FileOf(WriteAt0(file.text, CursorToString(pending[i].val)))
  /\ stored' = IF IsIntegerText(file'.text) THEN Number(file'.text) ELSE stored
  /\ pending' = RemoveAt(pending, i)
  /\ UNCHANGED <<now, pc, exited, cursor, jsVars, timerVars, listenState, handled,
                 runVars>>

\* Lines 70-72: the open or the write fails; the callback logs the error.
AsyncFail(i) ==
  /\ pc # "off"
  /\ pending' = RemoveAt(pending, i)
  /\ UNCHANGED <<now, fsVars, pc, exited, cursor, jsVars, timerVars, listenState,
                 handled, runVars>>

\* --------------------------------------------------------------- shutdown
\* Lines 132-134, up to the open: the SIGINT handler evaluates
\* jetstream.cursor!.toString(), which throws a TypeError when the cursor is
\* undefined; writeFileSync then opens the file with flag 'w', or throws.
Sigint ==
  /\ pc = "run"
  /\ \/ /\ jsCursor = Unset
        /\ Terminate("uncaught_sigint")
        /\ UNCHANGED <<file, checkpointStarted>>
     \/ /\ jsCursor # Unset
        /\ \/ /\ file' = FileOf(<<>>)
              /\ pc' = "sig_write"
              /\ UNCHANGED <<exited, pending, timerVars, conn>>
           \/ /\ Terminate("uncaught_sigint")
              /\ UNCHANGED file
        /\ checkpointStarted' = TRUE
  /\ UNCHANGED <<now, stored, cursor, jsCursor, consumed, handled, listenState, fresh>>

\* Line 134, second half: writeFileSync writes the text.
SigintWrite ==
  /\ pc = "sig_write"
  /\ file' = FileOf(WriteAt0(file.text, CursorToString(jsCursor)))
  /\ stored' = IF IsIntegerText(file'.text) THEN Number(file'.text) ELSE stored
  /\ pc' = "sig_close"
  /\ UNCHANGED <<now, exited, cursor, jsVars, timerVars, pending, listenState,
                 handled, runVars>>

\* Lines 135-136: jetstream.close(), then process.exit(0); the close event
\* is never delivered.
SigintCloseExit ==
  /\ pc = "sig_close"
  /\ Terminate("exit0")
  /\ UNCHANGED <<now, fsVars, cursor, jsCursor, consumed, handled, listenState,
                 runVars>>

\* Lines 50 and 134: writeFileSync throws (the open at startup or a write
\* fails);
\* nothing catches it.
SyncWriteThrows ==
  /\ pc \in {"fresh_open", "fresh_write", "sig_write"}
  /\ Terminate(IF pc \in {"fresh_open", "fresh_write"}
               THEN "uncaught_startup" ELSE "uncaught_sigint")
  /\ UNCHANGED <<now, fsVars, cursor, jsCursor, consumed, handled, listenState,
                 runVars>>

\* ------------------------------------------------------------ environment
\* The process is killed or the machine goes down.
Crash ==
  /\ pc # "off"
  /\ Terminate("killed")
  /\ UNCHANGED <<now, fsVars, cursor, jsCursor, consumed, handled, listenState,
                 runVars>>

\* The program is started again: module state is initialised afresh.
Restart ==
  /\ pc = "off"
  /\ pc' = "load"
  /\ exited' = "no"
  /\ cursor' = 0
  /\ jsCursor' = Unset
  /\ consumed' = FALSE
  /\ handled' = [src |-> "none", event |-> NoEvent, calls |-> <<>>, threw |-> FALSE,
                again |-> FALSE]
  /\ listenState' = "none"
  /\ fresh' = FALSE
  /\ checkpointStarted' = FALSE
  /\ UNCHANGED <<now, fsVars, conn, timerVars, pending>>

ClockAdvance ==
  /\ now < MaxNow
  /\ now' = now + 1
  /\ UNCHANGED <<fsVars, pc, exited, cursor, jsVars, timerVars, pending,
                 listenState, handled, runVars>>

Next ==
  \/ LoadCursor
  \/ FreshOpen
  \/ FreshWrite
  \/ NewJetstream
  \/ Listen
  \/ JetstreamStart
  \/ ListenFailed
  \/ ListenOk
  \/ JsOpen
  \/ JsClose
  \/ JsError
  \/ \E e \in MainEvents : OnCreate(e)
  \/ Tick
  \/ \E i \in 1..Len(pending) : AsyncOpen(i)
  \/ \E i \in 1..Len(pending) : AsyncWrite(i)
  \/ \E i \in 1..Len(pending) : AsyncFail(i)
  \/ Sigint
  \/ SigintWrite
  \/ SigintCloseExit
  \/ SyncWriteThrows
  \/ Crash
  \/ Restart
  \/ ClockAdvance

Spec == Init /\ [][Next]_vars

\* ------------------------------------------------- event-handling runs
\* A process that started without a cursor file, is listening and connected.
InitConnected ==
  /\ now = 1
  /\ file = FileOf(CursorToString(UsPerMs))
  /\ stored = UsPerMs
  /\ pc = "run"
  /\ exited = "no"
  /\ cursor = UsPerMs
  /\ jsCursor = UsPerMs
  /\ conn = "open"
  /\ consumed = FALSE
  /\ timers = {1}
  /\ cursorUpdateInterval = 1
  /\ pending = <<>>
  /\ lastTick = "none"
  /\ listenState = "listening"
  /\ handled = [src |-> "listen", event |-> NoEvent, calls |-> <<StartupLabel>>,
                threw |-> FALSE, again |-> FALSE]
  /\ fresh = TRUE
  /\ checkpointStarted = FALSE

NextEvents ==
  \/ \E e \in AllEvents : OnCreate(e)
  \/ ClockAdvance

SpecEvents == InitConnected /\ [][NextEvents]_vars

\* ---------------------------------------------------- round-trip runs
\* writeFileSync(CURSOR_FILE, text) run to completion: open 'w', write.
WriteFileSync(text) == FileOf(WriteAt0(<<>>, text))

InitRoundTrip ==
  /\ now = 1
  /\ file = NoFile
  /\ stored = 0
  /\ pc = "rt_save"
  /\ exited = "no"
  /\ cursor = 0
  /\ jsCursor \in 0..MaxCursor
  /\ conn = "none"
  /\ consumed = FALSE
  /\ timers = {}
  /\ cursorUpdateInterval = 0
  /\ pending = <<>>
  /\ lastTick = "none"
  /\ listenState = "none"
  /\ handled = [src |-> "none", event |-> NoEvent, calls |-> <<>>, threw |-> FALSE,
                again |-> FALSE]
  /\ fresh = FALSE
  /\ checkpointStarted = FALSE

\* Line 134: save jetstream.cursor.
RtSave ==
  /\ pc = "rt_save"
  /\ file' = WriteFileSync(CursorToString(jsCursor))
  /\ pc' = "rt_load"
  /\ UNCHANGED <<now, stored, exited, cursor, jsVars, timerVars, pending,
                 listenState, handled, runVars>>

\* Line 44: load the cursor.
RtLoad ==
  /\ pc \in {"rt_load", "rt_reload"}
  /\ cursor' = Number(file.text)
  /\ pc' = (IF pc = "rt_load" THEN "rt_resave" ELSE "rt_done")
  /\ UNCHANGED <<now, fsVars, exited, jsVars, timerVars, pending, listenState,
                 handled, runVars>>

\* Line 50: save the loaded cursor again.
RtResave ==
  /\ pc = "rt_resave"
  /\ file' = WriteFileSync(CursorToString(cursor))
  /\ pc' = "rt_reload"
  /\ UNCHANGED <<now, stored, exited, cursor, jsVars, timerVars, pending,
                 listenState, handled, runVars>>

NextRoundTrip == RtSave \/ RtLoad \/ RtResave

SpecRoundTrip == InitRoundTrip /\ [][NextRoundTrip]_vars

\* ---------------------------------------------------- checkpoint runs
\* A connected process whose connection stays up and whose writes succeed:
\* events arrive, the interval fires, the thread pool serves the writes.
NextConnected ==
  \/ \E e \in MainEvents : OnCreate(e)
  \/ Tick
  \/ \E i \in 1..Len(pending) : AsyncOpen(i)
  \/ \E i \in 1..Len(pending) : AsyncWrite(i)
  \/ ClockAdvance

\* setInterval keeps firing; the thread pool serves every request it holds.
FairConnected ==
  /\ WF_vars(Tick)
  /\ WF_vars(\E i \in 1..Len(pending) : AsyncOpen(i))
  /\ WF_vars(\E i \in 1..Len(pending) : AsyncWrite(i))

SpecConnected == InitConnected /\ [][NextConnected]_vars /\ FairConnected

\* ================================================================= claims
StartupPcs == {"load", "fresh_open", "fresh_write"}

\* No write to the cursor file is between its open and its data.
NoWriteInProgress == pending = <<>> /\ pc \notin {"fresh_write", "sig_write"}

\* C1: every completed write to the cursor file stores a value greater than
\* or equal to the value the previous completed write stored.
C1_CursorFileNeverDecreases == [][stored' >= stored]_vars

\* C2: the SIGINT handler never fails before it reaches process.exit(0).
C2_ShutdownNeverFails == exited # "uncaught_sigint"

\* C3: when the labeler's listener fails to start, the process has exited
\* with status 1.
C3_ListenFailureAborts ==
  listenState = "failed" => (exited # "no" /\ ExitCode(exited) = 1)

\* C4: startup goes past the cursor load only with a cursor file whose text
\* is an integer.
C4_UnparsableCursorAborts == pc = "new" => IsIntegerText(file.text)

\* C5: in a run that found no cursor file and wrote its synthesized cursor,
\* until the first periodic or shutdown write begins (and after a crash before
\* it), the cursor is a non-zero time in microseconds, the file holds exactly
\* its text, a load of the file gives it back, and before the first event it
\* is the cursor of the event source.
C5_FreshCursorPersisted ==
  (fresh /\ ~checkpointStarted) =>
    /\ cursor > 0
    /\ \E ms \in 1..now : cursor = ms * UsPerMs
    /\ file = FileOf(CursorToString(cursor))
    /\ Number(file.text) = cursor
    /\ (pc \in {"listen", "start", "run"} /\ ~consumed) => jsCursor = cursor

\* C5 witness: the process was killed after startup and after it received
\* events, before any checkpoint, and the file gives back its start cursor.
C5_Witness ==
  /\ fresh /\ ~checkpointStarted /\ consumed
  /\ exited = "killed"
  /\ jsCursor > cursor
  /\ Number(file.text) = cursor

\* C6: when the process is killed after a periodic or shutdown write began,
\* the file holds the text of the last completely written value.
C6_AtomicSave ==
  (exited = "killed" /\ checkpointStarted /\ stored > 0)
    => file.text = CursorToString(stored)

\* C8: a handler run in which createLabel throws leaves the process running.
C8_LabelFailureNeverCrashes ==
  [][(handled' # handled /\ handled'.threw) => pc' = "run"]_vars

\* C9: whenever the cursor file exists and no write is in progress, its text
\* is an integer.
C9_FileIsInteger ==
  (file.exists /\ NoWriteInProgress) => IsIntegerText(file.text)

\* C7: the handler issues exactly one createLabel call, with the post's uri,
\* val 'no-alt-text' and neg false, for an event of the target actor whose
\* embed is of the images kind with an image whose alt is empty or absent;
\* for every other event it issues none, nothing throws, and the process
\* keeps running.
C7_LabelExactlyQualifying ==
  handled.src = "onCreate" =>
    LET e == handled.event
        qualifies ==
          /\ e.did = DID
          /\ e.embed = "images"
          /\ \E i \in DOMAIN e.images : e.images[i] \in {"", NoAlt}
    IN /\ pc = "run"
       /\ exited = "no"
       /\ IF qualifies
          THEN handled.calls =
                 << [uri |-> <<"at://", e.did, "/", "app.bsky.feed.post", "/", e.rkey>>,
                     neg |-> FALSE, val |-> "no-alt-text"] >>
          ELSE handled.calls = <<>> /\ ~handled.threw

\* C7 witness: a post of the target actor with one described image and one
\* image without alt was labelled once.
C7_Witness ==
  /\ handled.src = "onCreate"
  /\ handled.event.did = DID
  /\ handled.event.images = <<"a", NoAlt>>
  /\ Len(handled.calls) = 1

\* C10: a saved cursor loads as the same number, and saving the loaded value
\* again leaves the file as it was and loadable as the same number.
C10_RoundTrip ==
  /\ [](pc \in {"rt_resave", "rt_done"} => cursor = jsCursor)
  /\ [][pc = "rt_resave" => file' = file]_vars

\* C10 witness: a three-digit cursor went through save, load, save, load.
C10_Witness == pc = "rt_done" /\ jsCursor >= 100 /\ cursor = jsCursor

\* C11: while the connection is lost (after a close or an error event and
\* until the next open event) no checkpoint timer is active, so no periodic
\* write can be started.
C11_TimerCancelledOnDisconnect == conn # "open" => timers = {}

\* C12: every createLabel call the process makes is the label of a
\* qualifying event that the event source delivered.
C12_OnlyQualifyingEventsLabelled ==
  handled.calls # <<>> =>
    /\ handled.src = "onCreate"
    /\ handled.event # NoEvent
    /\ handled.calls = CreateHandlerCalls(handled.event)

\* C13: a firing of the checkpoint timer while jetstream.cursor is undefined
\* or zero starts no write and leaves the cursor file and the stored value
\* as they were.
C13_NoWriteForUnsetCursor ==
  [][(jsCursor \in {Unset, 0} /\ Tick) => UNCHANGED <<pending, file, stored>>]_vars

\* C13 witness: the timer fired in a process that resumed from cursor zero,
\* and nothing is in flight.
C13_Witness ==
  /\ pc = "run" /\ timers # {}
  /\ jsCursor = 0
  /\ lastTick = "skip"
  /\ pending = <<>>
  /\ ~checkpointStarted

\* C14: when a periodic write fails, with no other write in flight, the
\* process keeps running, the timer stays active, and the cursor file still
\* holds the value that was stored before the write was attempted.
C14_FailedCheckpointHarmless ==
  [][(pc = "run" /\ fresh /\ Len(pending) = 1 /\ AsyncFail(1)) =>
       /\ pc' = "run" /\ exited' = "no"
       /\ timers' = timers
       /\ file'.text = CursorToString(stored')]_vars

\* The values jetstream.cursor can take in a connected process.
CursorValues == {UsPerMs} \cup {t \in 1..((MaxNow + 1) * UsPerMs) : t % UsPerMs = 500}

\* C15: while the connection stays open and the writes succeed, with the
\* timer firing again and again, every value jetstream.cursor reaches is
\* eventually covered by the stored value.
C15_CheckpointProgress ==
  \A v \in CursorValues : (jsCursor = v) ~> (stored >= v)

\* C15 witness: the cursor advanced past its start value and a periodic
\* write has stored it.
C15_Witness ==
  /\ jsCursor > UsPerMs
  /\ checkpointStarted
  /\ pending = <<>>
  /\ stored = jsCursor
  /\ file.text = CursorToString(jsCursor)

\* The cursor a start of the process reads from the cursor file is the
\* number the file's text denotes, and it is the cursor given to Jetstream.
ResumesFromFile ==
  /\ (pc = "new" /\ file.exists) => cursor = Number(file.text)
  /\ (pc = "listen" /\ Truthy(cursor)) => jsCursor = cursor

\* C16: a start connects the event source with the value the cursor file
\* holds, and after a graceful shutdown the file holds the cursor that the
\* shutdown saved, so the next start resumes exactly from it.
C16_ResumeFromPersistedCursor ==
  /\ ResumesFromFile
  /\ exited = "exit0" => (file.exists /\ Number(file.text) = jsCursor)

C18_AtMostOneTimer ==
  /\ [](Cardinality(timers) <= 1)
  /\ [][JsClose => timers' = {}]_vars

\* C19: after exit 0 the cursor file holds the text of the cursor that was
\* current when the signal was handled, whatever periodic writes were in
\* flight at that moment.
C19_ShutdownWriteWins ==
  exited = "exit0" => file.text = CursorToString(jsCursor)

====
